---- MODULE Spec2Model ----
(***************************************************************************)
(* Model of the JATS structural repair of OmniFormat_XML_JATS_PMD:         *)
(* HighFidelityConverter._post_process_xml (MasterPipeline.py) followed by *)
(* the generation of the DTD variant articledtd.xml (tools/add_doctype.py).*)
(*                                                                         *)
(* A document is the content of an XML file: the list of DOCTYPE           *)
(* declarations in its prolog, the namespace map of the root element and   *)
(* the element tree.  An element is a record                               *)
(*     [tag, a, text, tail, kids]                                          *)
(* where a is the attribute map (a function from attribute names to        *)
(* values), text and tail are the lxml text and tail ("" stands for None:  *)
(* both serialise to the same bytes) and kids is the ordered child list.   *)
(***************************************************************************)
EXTENDS Integers, Sequences, FiniteSets, TLC

VARIABLES xml, dtd, pc, run, input, first, completed,
          report, validation,
          output_dir, thread, package,
          gcs, progress, web

\* The validation report file and the result of validate_jats_compliance.
pipeline_vars == <<report, validation>>

\* The working directory all converters share, the background conversion
\* threads of the web application and the packages they have zipped.
conversion_vars == <<output_dir, thread, package>>

\* The web application: the module-level GCSHandler, the conversion_progress
\* dictionary, and the request threads with the files they leave.
app_vars == <<gcs, progress, web>>

vars == <<xml, dtd, pc, run, input, first, completed, pipeline_vars, conversion_vars, app_vars>>

(***************************************************************************)
(* Bounds of the explored inputs.                                          *)
(***************************************************************************)
MaxTableKids == 3

MaxNum == 9

MaxRefs == 2

MaxMetaKids == 3

MaxTexMath == 2

Years == {"2025", "2026"}

(***************************************************************************)
(* lxml element API.                                                       *)
(***************************************************************************)
None == "<None>"

NoA == [n \in {} |-> ""]

El(tag, a, text, kids) == [tag |-> tag, a |-> a, text |-> text, tail |-> "", kids |-> kids]

Has(a, n) == n \in DOMAIN a

Get(a, n) == IF n \in DOMAIN a THEN a[n] ELSE None

Truthy(v) == v # None /\ v # ""

SetA(a, n, v) == [k \in DOMAIN a \cup {n} |-> IF k = n THEN v ELSE a[k]]

DelA(a, n) == [k \in DOMAIN a \ {n} |-> a[k]]

SetAttr(e, n, v) == [e EXCEPT !.a = SetA(@, n, v)]

DelAttr(e, n) == [e EXCEPT !.a = DelA(@, n)]

RECURSIVE At(_, _)
At(e, p) == IF p = <<>> THEN e ELSE At(e.kids[Head(p)], Tail(p))

RECURSIVE Put(_, _, _)
Put(e, p, n) == IF p = <<>> THEN n ELSE [e EXCEPT !.kids[Head(p)] = Put(@, Tail(p), n)]

RECURSIVE DescFrom(_, _, _)
DescFrom(e, pre, i) ==
    IF i > Len(e.kids) THEN <<>>
    ELSE <<pre \o <<i>>>> \o DescFrom(e.kids[i], pre \o <<i>>, 1) \o DescFrom(e, pre, i + 1)

Desc(e) == DescFrom(e, <<>>, 1)

Iter(e) == <<<<>>>> \o Desc(e)

FindAll(e, tag) == SelectSeq(Desc(e), LAMBDA p : At(e, p).tag = tag)

KidIdx(e, tag) == SelectSeq([i \in 1..Len(e.kids) |-> i], LAMBDA i : e.kids[i].tag = tag)

Range(s) == {s[i] : i \in 1..Len(s)}

FirstOf(s) == IF s = <<>> THEN <<>> ELSE <<Head(s)>>

Find(e, tag) == FirstOf(FindAll(e, tag))

InsertAt(s, i, x) ==
    IF i >= Len(s) THEN Append(s, x)
    ELSE SubSeq(s, 1, i) \o <<x>> \o SubSeq(s, i + 1, Len(s))

RECURSIVE Fold(_, _, _)
Fold(F(_, _), r, ps) == IF ps = <<>> THEN r ELSE Fold(F, F(r, Head(ps)), Tail(ps))

Update(root, p, F(_)) == Put(root, p, F(At(root, p)))

(***************************************************************************)
(* Table structure fix.                                                    *)
(***************************************************************************)
EmptyCell == El("td", NoA, "", <<>>)

EmptyRow == El("tr", NoA, "", <<EmptyCell>>)

IsEmptyTbody(tb) == Len(tb.kids) = 0 \/ FindAll(tb, "tr") = <<>>

NonEmptyTbodyCount(table) ==
    Len(SelectSeq(table.kids, LAMBDA k : k.tag = "tbody" /\ ~IsEmptyTbody(k)))

WithoutEmptyTbody(table) ==
    [table EXCEPT !.kids = SelectSeq(@, LAMBDA k : ~(k.tag = "tbody" /\ IsEmptyTbody(k)))]

TbodyInsertIndex(table) ==
    IF KidIdx(table, "tfoot") # <<>> THEN Head(KidIdx(table, "tfoot"))
    ELSE Head(KidIdx(table, "thead"))

FixTableWithHeader(table) ==
    LET t1 == WithoutEmptyTbody(table)
    IN  IF NonEmptyTbodyCount(table) = 0
        THEN [t1 EXCEPT !.kids = InsertAt(@, TbodyInsertIndex(t1), El("tbody", NoA, "", <<EmptyRow>>))]
        ELSE t1

FixSoleTbody(tb) == [tb EXCEPT !.kids = Append(@, EmptyRow)]

FixTableWithoutHeader(table) ==
    IF Len(KidIdx(table, "tbody")) = 1 /\ KidIdx(table, "tr") = <<>>
    THEN [table EXCEPT !.kids =
            [i \in 1..Len(@) |->
                IF @[i].tag = "tbody" /\ IsEmptyTbody(@[i]) THEN FixSoleTbody(@[i]) ELSE @[i]]]
    ELSE WithoutEmptyTbody(table)

FixTable(table) ==
    IF KidIdx(table, "thead") # <<>> \/ KidIdx(table, "tfoot") # <<>>
    THEN FixTableWithHeader(table)
    ELSE FixTableWithoutHeader(table)

FixTableAt(root, p) == Update(root, p, FixTable)

FixTables(root) == Fold(FixTableAt, root, FindAll(root, "table"))

(***************************************************************************)
(* table-wrap position.                                                    *)
(***************************************************************************)
FixPosition(tw) ==
    IF Get(tw.a, "position") = None THEN SetAttr(tw, "position", "float")
    ELSE IF Get(tw.a, "position") = "top" THEN SetAttr(tw, "position", "float")
    ELSE tw

FixPositionAt(root, p) == Update(root, p, FixPosition)

FixTableWraps(root) == Fold(FixPositionAt, root, FindAll(root, "table-wrap"))

(***************************************************************************)
(* Reference ids and cross references.                                     *)
(***************************************************************************)
RefId(i) == "ref" \o ToString(i)

isdigit(s) == \E n \in 0..MaxNum : ToString(n) = s

int(s) == CHOOSE n \in 0..MaxNum : ToString(n) = s

\* Paths of the ref entries of the first ref-list of the first back element.
RefPaths(root) ==
    LET back == Find(root, "back")
    IN  IF back = <<>> THEN <<>>
        ELSE LET rl == Find(At(root, back[1]), "ref-list")
             IN  IF rl = <<>> THEN <<>>
                 ELSE LET rlp == back[1] \o rl[1]
                      IN  [i \in 1..Len(FindAll(At(root, rlp), "ref")) |->
                              rlp \o FindAll(At(root, rlp), "ref")[i]]

RefIdOr(root, i) ==
    LET ref == At(root, RefPaths(root)[i])
    IN  IF Has(ref.a, "id") THEN ref.a["id"] ELSE RefId(i)

AddRefId(root, i) ==
    LET p == RefPaths(root)[i]
    IN  IF Has(At(root, p).a, "id") THEN root
        ELSE Put(root, p, SetAttr(At(root, p), "id", RefId(i)))

FixRefIds(root) == Fold(AddRefId, root, [i \in 1..Len(RefPaths(root)) |-> i])

ReferencedIds(root) ==
    {Get(At(root, p).a, "rid") : p \in {q \in Range(FindAll(root, "xref")) : Truthy(Get(At(root, q).a, "rid"))}}

RefWithId(root, rid) ==
    \E i \in 1..Len(RefPaths(root)) : Get(At(root, RefPaths(root)[i]).a, "id") = rid

AltIndex(root, x) ==
    IF Truthy(Get(x.a, "alt")) /\ isdigit(Get(x.a, "alt"))
       /\ int(Get(x.a, "alt")) \in 1..Len(RefPaths(root))
    THEN int(Get(x.a, "alt"))
    ELSE 0

FixXrefByAlt(root, referenced_ids, p) ==
    LET x == At(root, p)
        i == AltIndex(root, x)
    IN  IF i # 0 /\ Get(x.a, "rid") \in referenced_ids /\ ~RefWithId(root, Get(x.a, "rid"))
        THEN Put(root, p, SetAttr(x, "rid", RefIdOr(root, i)))
        ELSE root

FixXrefRids(root) ==
    LET referenced_ids == ReferencedIds(root)
        FixAt(r, p) == FixXrefByAlt(r, referenced_ids, p)
    IN  Fold(FixAt, root, FindAll(root, "xref"))

AddRefType(x) == IF Has(x.a, "ref-type") THEN x ELSE SetAttr(x, "ref-type", "bibr")

AddRid(root, x) ==
    IF ~Has(x.a, "rid") /\ AltIndex(root, x) # 0
    THEN SetAttr(x, "rid", RefIdOr(root, AltIndex(root, x)))
    ELSE x

FixXrefAttrsAt(root, p) == Put(root, p, AddRid(root, AddRefType(At(root, p))))

FixXrefAttrs(root) == Fold(FixXrefAttrsAt, root, FindAll(root, "xref"))

(***************************************************************************)
(* IDREF validation.                                                       *)
(***************************************************************************)
ValidIds(root) ==
    {Get(At(root, p).a, "id") : p \in {q \in Range(Iter(root)) : Truthy(Get(At(root, q).a, "id"))}}

RepairedRid(root, valid, e) ==
    LET i == IF e.tag = "xref" THEN AltIndex(root, e) ELSE 0
        correct_id == IF i = 0 THEN None ELSE Get(At(root, RefPaths(root)[i]).a, "id")
    IN  IF Truthy(correct_id) /\ correct_id \in valid
        THEN SetAttr(e, "rid", correct_id)
        ELSE DelAttr(e, "rid")

ValidateRid(root, valid, e) ==
    IF Truthy(Get(e.a, "rid")) /\ Get(e.a, "rid") \notin valid
    THEN RepairedRid(root, valid, e)
    ELSE e

ValidateRids(valid, e) ==
    IF Has(e.a, "rids") /\ e.a["rids"] # <<>>
    THEN LET valid_rid_list == SelectSeq(e.a["rids"], LAMBDA r : r \in valid)
         IN  IF valid_rid_list # <<>> THEN SetAttr(e, "rids", valid_rid_list)
             ELSE DelAttr(e, "rids")
    ELSE e

ValidateIdrefs(root) ==
    LET valid == ValidIds(root)
        ValidateAt(r, p) == Put(r, p, ValidateRids(valid, ValidateRid(root, valid, At(r, p))))
    IN  Fold(ValidateAt, root, Iter(root))

(***************************************************************************)
(* Front matter: journal-meta and article-meta.                            *)
(***************************************************************************)
IsBlank(t) == t \in {"", " "}

FindIn(root, base, tag) ==
    IF base = <<>> THEN <<>>
    ELSE IF Find(At(root, base[1]), tag) = <<>> THEN <<>>
    ELSE <<base[1] \o Find(At(root, base[1]), tag)[1]>>

UpdateIf(root, p, F(_)) == IF p = <<>> THEN root ELSE Update(root, p[1], F)

FixJournalId(e) ==
    IF IsBlank(e.text)
    THEN [SetAttr(e, "journal-id-type", "publisher-id") EXCEPT !.text = "unknown-journal"]
    ELSE IF ~Has(e.a, "journal-id-type") THEN SetAttr(e, "journal-id-type", "publisher-id")
    ELSE e

FixJournalTitleGroup(g) ==
    LET jt == Find(g, "journal-title")
    IN  IF jt = <<>>
        THEN [g EXCEPT !.kids = Append(@, El("journal-title", NoA, "Unknown Journal", <<>>))]
        ELSE IF IsBlank(At(g, jt[1]).text)
        THEN Put(g, jt[1], [At(g, jt[1]) EXCEPT !.text = "Unknown Journal"])
        ELSE g

FixIssn(e) ==
    LET e1 == IF IsBlank(e.text) THEN [e EXCEPT !.text = "0000-0000"] ELSE e
    IN  IF ~Has(e1.a, "pub-type") /\ ~Has(e1.a, "publication-format")
        THEN SetAttr(e1, "pub-type", "epub")
        ELSE e1

FixPublisherName(e) == IF IsBlank(e.text) THEN [e EXCEPT !.text = "Unknown Publisher"] ELSE e

FixPublisher(pub) == UpdateIf(pub, Find(pub, "publisher-name"), FixPublisherName)

FixJournalMeta(jm) ==
    LET j1 == UpdateIf(jm, Find(jm, "journal-id"), FixJournalId)
        j2 == UpdateIf(j1, Find(j1, "journal-title-group"), FixJournalTitleGroup)
        j3 == UpdateIf(j2, Find(j2, "issn"), FixIssn)
    IN  UpdateIf(j3, Find(j3, "publisher"), FixPublisher)

TitleGroup == El("title-group", NoA, "", <<El("article-title", NoA, "Article Title", <<>>)>>)

SubjectText(article_type) ==
    IF article_type = "research-article" THEN "Research Article"
    ELSE IF article_type = "review-article" THEN "Review Article"
    ELSE "Article"

ArticleCategories(article_type) ==
    El("article-categories", NoA, "",
       <<El("subj-group", [n \in {"subj-group-type"} |-> "heading"], "",
            <<El("subject", NoA, SubjectText(article_type), <<>>)>>)>>)

PubDate(year) ==
    El("pub-date", [n \in {"date-type", "publication-format"} |->
                      IF n = "date-type" THEN "pub" ELSE "electronic"], "",
       <<El("year", NoA, year, <<>>)>>)

ElocationId == El("elocation-id", NoA, "e001", <<>>)

\* list(article_meta).index(permissions) raises ValueError for a nested permissions.
TitleGroupRaises(am) ==
    /\ Find(am, "permissions") # <<>>
    /\ Find(am, "title-group") = <<>>
    /\ Len(Find(am, "permissions")[1]) > 1

AddTitleGroup(am) ==
    IF Find(am, "permissions") # <<>> /\ Find(am, "title-group") = <<>>
    THEN [am EXCEPT !.kids = InsertAt(@, Find(am, "permissions")[1][1] - 1, TitleGroup)]
    ELSE am

AddArticleCategories(am, article_type) ==
    IF Find(am, "article-categories") = <<>>
    THEN [am EXCEPT !.kids = <<ArticleCategories(article_type)>> \o @]
    ELSE am

DirectIndex(am, tag) ==
    IF Find(am, tag) # <<>> /\ Len(Find(am, tag)[1]) = 1 THEN Find(am, tag)[1][1] ELSE 0

InsertBase(am) ==
    IF DirectIndex(am, "title-group") # 0 THEN DirectIndex(am, "title-group")
    ELSE DirectIndex(am, "article-categories")

RECURSIVE SkipTags(_, _, _)
SkipTags(am, idx, tags) ==
    IF idx < Len(am.kids) /\ am.kids[idx + 1].tag \in tags THEN SkipTags(am, idx + 1, tags)
    ELSE idx

FixArticleMeta(am, article_type, year) ==
    LET m1 == AddArticleCategories(AddTitleGroup(am), article_type)
        i1 == SkipTags(m1, InsertBase(m1), {"contrib-group", "aff", "author-notes"})
        noDate == Find(m1, "pub-date") = <<>>
        m2 == IF noDate THEN [m1 EXCEPT !.kids = InsertAt(@, i1, PubDate(year))] ELSE m1
        i2 == SkipTags(m2, IF noDate THEN i1 + 1 ELSE i1, {"volume", "issue"})
    IN  IF Find(m2, "fpage") = <<>> /\ Find(m2, "elocation-id") = <<>>
        THEN [m2 EXCEPT !.kids = InsertAt(@, i2, ElocationId)]
        ELSE m2

FixFront(root, year) ==
    LET front == Find(root, "front")
        r1 == UpdateIf(root, FindIn(root, front, "journal-meta"), FixJournalMeta)
        amp == FindIn(r1, front, "article-meta")
    IN  IF amp = <<>> THEN r1
        ELSE Put(r1, amp[1],
                 FixArticleMeta(At(r1, amp[1]), IF Has(root.a, "article-type") THEN root.a["article-type"]
                                ELSE "research-article",
                                year))

FrontRaises(root) ==
    LET amp == FindIn(root, Find(root, "front"), "article-meta")
    IN  amp # <<>> /\ TitleGroupRaises(At(root, amp[1]))

(***************************************************************************)
(* Namespace map and root attributes.                                      *)
(***************************************************************************)
XlinkUri == "http://www.w3.org/1999/xlink"

MmlUri == "http://www.w3.org/1998/Math/MathML"

\* prefix.lower() in str(key).lower(), over the prefixes of NsPrefixes.
ContainsLower(key, prefix) ==
    \/ prefix = "xlink" /\ key \in {"xlink", "XLINK", "xlinks"}
    \/ prefix = "mml" /\ key \in {"mml", "mml2"}

namespace_exists(nsmap, prefix) ==
    IF DOMAIN nsmap = {} THEN FALSE
    ELSE IF prefix \in DOMAIN nsmap THEN TRUE
    ELSE \E key \in DOMAIN nsmap : Truthy(key) /\ ContainsLower(key, prefix)

DesiredNsmap(nsmap) ==
    LET n1 == IF ~namespace_exists(nsmap, "xlink") THEN SetA(nsmap, "xlink", XlinkUri) ELSE nsmap
    IN  IF ~namespace_exists(n1, "mml") THEN SetA(n1, "mml", MmlUri) ELSE n1

IsSchemaLocation(name) == name \in {"xsi:schemaLocation", "other:schemaLocation"}

RebuildRoot(root) ==
    [root EXCEPT !.a = [k \in {n \in DOMAIN @ : ~IsSchemaLocation(n)} |-> @[k]],
                 !.text = ""]

FixNamespaces(doc) ==
    IF DesiredNsmap(doc.nsmap) # doc.nsmap
    THEN [doc EXCEPT !.nsmap = DesiredNsmap(@), !.root = RebuildRoot(@)]
    ELSE doc

JatsVersion == "1.3"

FixRootAttrs(root) ==
    LET r1 == IF Has(root.a, "xsi:schemaLocation") THEN DelAttr(root, "xsi:schemaLocation") ELSE root
        r2 == SetAttr(r1, "dtd-version", JatsVersion)
    IN  IF ~Has(r2.a, "article-type") THEN SetAttr(r2, "article-type", "research-article") ELSE r2

(***************************************************************************)
(* _post_process_xml on a parsed document.                                 *)
(***************************************************************************)
\* A conversion of tex-math placeholders that takes every placeholder for a
\* citation marker.
ConvertTexMathAt(root, p) ==
    IF At(root, p).tag = "tex-math"
    THEN Put(root, p, [El("sup", NoA, "", <<El("xref", ("ref-type" :> "bibr") @@ ("rid" :> "ref1"), "1", <<>>)>>)
                          EXCEPT !.tail = At(root, p).tail])
    ELSE root

PostProcessRoot_ConvertsFormulas(root, year) ==
    Fold(ConvertTexMathAt, ValidateIdrefs(FixXrefAttrs(FixXrefRids(FixRefIds(
        FixFront(FixTables(FixTableWraps(root)), year))))), FindAll(root, "tex-math"))

PostProcessRoot(root, year) ==
    ValidateIdrefs(FixXrefAttrs(FixXrefRids(FixRefIds(
        FixFront(FixTables(FixTableWraps(root)), year)))))

\* A file with more than one DOCTYPE declaration cannot be parsed.
WellFormed_Always(doc) == TRUE

WellFormed(doc) == Len(doc.doctype) <= 1

\* etree.parse raises on a file that is not well formed; every exception is
\* caught by the except clause of _post_process_xml.
Raises(doc) == ~WellFormed(doc) \/ FrontRaises(FixTables(FixTableWraps(doc.root)))

PostProcess_KeepsDoctype(doc, year) ==
    IF Raises(doc) THEN doc
    ELSE LET d1 == FixNamespaces([doc EXCEPT !.root = PostProcessRoot(@, year)])
         IN  [d1 EXCEPT !.root = FixRootAttrs(@)]

PostProcess(doc, year) ==
    IF Raises(doc) THEN doc
    ELSE LET d1 == FixNamespaces([doc EXCEPT !.root = PostProcessRoot(@, year)])
         IN  [d1 EXCEPT !.root = FixRootAttrs(@), !.doctype = <<>>]

(***************************************************************************)
(* add_doctype_declaration.                                                *)
(***************************************************************************)
DOCTYPE_DECLARATIONS ==
    [v \in {"1.0", "1.1", "1.2", "1.3", "1.4"} |->
        "-//NLM//DTD JATS (Z39.96) Journal Publishing DTD v" \o v]

\* The content of output_path after the call: the serialised input tree with
\* the DOCTYPE line put after the XML declaration, or the old content when the
\* call returns False.
add_doctype_declaration_Unsupported(input_doc, old_output, jats_version) == old_output

add_doctype_declaration(input_doc, old_output, jats_version) ==
    IF jats_version \notin DOMAIN DOCTYPE_DECLARATIONS \/ ~WellFormed(input_doc)
    THEN old_output
    ELSE <<[input_doc EXCEPT !.doctype = <<DOCTYPE_DECLARATIONS[jats_version]>> \o @]>>

(***************************************************************************)
(* Input documents.                                                        *)
(***************************************************************************)
RECURSIVE SeqsUpTo(_, _)
SeqsUpTo(S, n) ==
    IF n = 0 THEN {<<>>}
    ELSE LET shorter == SeqsUpTo(S, n - 1)
         IN  shorter \cup {Append(s, x) : s \in {t \in shorter : Len(t) = n - 1}, x \in S}

HeadRow == El("tr", NoA, "", <<El("th", NoA, "A", <<>>)>>)

DataRow == El("tr", NoA, "", <<El("td", NoA, "1", <<>>)>>)

TableKid ==
    { El("col", NoA, "", <<>>),
      El("thead", NoA, "", <<HeadRow>>),
      El("tfoot", NoA, "", <<DataRow>>),
      El("tbody", NoA, "", <<>>),
      El("tbody", NoA, "", <<El("x", NoA, "", <<>>)>>),
      El("tbody", NoA, "", <<DataRow>>),
      DataRow }

\* Tables with at most one thead and at most one tfoot, in any order.
Tables ==
    {t \in {El("table", NoA, "", k) : k \in SeqsUpTo(TableKid, MaxTableKids)} :
        Len(KidIdx(t, "thead")) <= 1 /\ Len(KidIdx(t, "tfoot")) <= 1}

Article(kids) == El("article", NoA, "", kids)

File(root) == [doctype |-> <<>>, nsmap |-> NoA, root |-> root]

OptAttr(name, values) == {NoA} \cup {name :> v : v \in values}

Body(kids) == El("body", NoA, "", kids)

TableDocs == {File(Article(<<Body(<<El("table-wrap", NoA, "", <<t>>)>>)>>)) : t \in Tables}

WrapDocs ==
    {File(Article(<<Body(<<El("table-wrap", a, "", <<El("table", NoA, "", <<DataRow>>)>>)>>)>>)) :
        a \in OptAttr("position", {"top", "float", "anchor", "margin"})}

\* Cross references, id owners and the reference list.
Xrefs ==
    {El("xref", r @@ l @@ t, "1", <<>>) :
        r \in OptAttr("rid", {"", "ref1", "Ref1", "bad"}),
        l \in OptAttr("alt", {"1", "2", "x"}),
        t \in OptAttr("ref-type", {"bibr", "sec"})}

RidCarriers ==
    {El("award-id", r, "", <<>>) : r \in OptAttr("rid", {"ref1", "bad"}) \ {NoA}}
    \cup {El("related-object", "rids" :> v, "", <<>>) :
            v \in {<<>>, <<"ref1">>, <<"bad">>, <<"bad", "Ref1">>, <<"ref2", "bad", "ref1">>}}

Anchor == El("named-content", ("id" :> "Ref1") @@ ("content-type" :> "anchor"), "", <<>>)

Refs ==
    {El("ref", a, "", <<El("mixed-citation", NoA, "Cited work", <<>>)>>) :
        a \in OptAttr("id", {"ref1", "ref2", "r9"})}

Backs ==
    {<<>>, <<El("back", NoA, "", <<>>)>>}
    \cup {<<El("back", NoA, "", <<El("ref-list", NoA, "", refs)>>)>> : refs \in SeqsUpTo(Refs, MaxRefs)}

Para(kids) == El("p", NoA, "Text", kids)

XrefDocs ==
    {File(Article(<<Body(<<Para(anchor \o xs)>>)>> \o back)) :
        anchor \in {<<>>, <<Anchor>>},
        xs \in {<<x>> : x \in Xrefs \cup RidCarriers},
        back \in Backs}

\* Front matter.
Leaf(tag) == El(tag, NoA, "", <<>>)

MetaKid ==
    {Leaf(t) : t \in {"article-categories", "title-group", "contrib-group", "aff", "author-notes",
                      "pub-date", "volume", "issue", "fpage", "elocation-id", "permissions",
                      "abstract"}}
    \cup {El("supplementary-material", NoA, "", <<Leaf("permissions")>>),
          El("related-article", NoA, "", <<Leaf("fpage")>>)}

Front(kids) == El("front", NoA, "", kids)

MetaDocs ==
    {File(Article(<<Front(<<El("article-meta", NoA, "", k)>>)>>)) : k \in SeqsUpTo(MetaKid, MaxMetaKids)}

ArticleTypeDocs ==
    {File(El("article", a, "", <<Front(<<Leaf("article-meta")>>)>>)) :
        a \in OptAttr("article-type", {"research-article", "review-article", "letter"})}

JournalIds ==
    {<<>>} \cup {<<El("journal-id", a, t, <<>>)>> :
                    a \in OptAttr("journal-id-type", {"issn"}), t \in {"", "jid"}}

JournalTitleGroups ==
    {<<>>, <<Leaf("journal-title-group")>>}
    \cup {<<El("journal-title-group", NoA, "", <<El("journal-title", NoA, t, <<>>)>>)>> : t \in {" ", "J"}}

Issns ==
    {<<>>} \cup {<<El("issn", a, t, <<>>)>> :
                    a \in OptAttr("pub-type", {"ppub"}) \cup OptAttr("publication-format", {"print"}),
                    t \in {"", "1234-5678"}}

Publishers ==
    {<<>>, <<Leaf("publisher")>>}
    \cup {<<El("publisher", NoA, "", <<El("publisher-name", NoA, t, <<>>)>>)>> : t \in {"", "P"}}

JournalDocs ==
    {File(Article(<<Front(<<El("journal-meta", NoA, "", j \o g \o i \o u)>>)>>)) :
        j \in JournalIds, g \in JournalTitleGroups, i \in Issns, u \in Publishers}

\* Root element: namespace declarations, attributes and DOCTYPE.
XsiUri == "http://www.w3.org/2001/XMLSchema-instance"

NsUri(prefix) ==
    IF prefix \in {"xlink", "XLINK", "xlinks"} THEN XlinkUri
    ELSE IF prefix \in {"mml", "mml2"} THEN MmlUri
    ELSE IF prefix = "xsi" THEN XsiUri
    ELSE "http://jats.nlm.nih.gov"

NsPrefixes == {None, "xlink", "XLINK", "mml", "mml2", "xsi"}

Nsmaps == {[k \in ks |-> NsUri(k)] : ks \in SUBSET NsPrefixes}

RootAttrs(nsmap) ==
    {s @@ t @@ v :
        s \in IF "xsi" \in DOMAIN nsmap THEN OptAttr("xsi:schemaLocation", {"jats.xsd"}) ELSE {NoA},
        t \in OptAttr("article-type", {"review-article"}),
        v \in OptAttr("dtd-version", {"1.2"})}

RootDocs ==
    {[doctype |-> dt, nsmap |-> ns, root |-> El("article", a, tx, <<Body(<<Para(<<>>)>>)>>)] :
        dt \in {<<>>, <<DOCTYPE_DECLARATIONS["1.2"]>>}, ns \in Nsmaps, a \in UNION {RootAttrs(n) : n \in Nsmaps}, tx \in {""}}

\* Authoring attributes.
AuthoringAttrs ==
    {c @@ d @@ e :
        c \in OptAttr("class", {"dtd-compliance"}),
        d \in OptAttr("data-dtd-compliance", {"true"}),
        e \in OptAttr("data-row-id", {"1"})}

AttrDocs ==
    {File(Article(<<Body(<<El("p", pa, "Test paragraph", <<>>),
                          El("table-wrap", NoA, "",
                             <<El("table", NoA, "",
                                  <<El("tbody", NoA, "",
                                       <<El("tr", ra, "", <<El("td", NoA, "Content", <<>>)>>)>>)>>)>>)>>)>>)) :
        pa \in AuthoringAttrs, ra \in AuthoringAttrs}

\* A table next to front matter whose only permissions element sits inside a
\* supplementary-material, with and without a title-group.
NestedPermissions == El("supplementary-material", NoA, "", <<Leaf("permissions")>>)

FrontAndTableDocs ==
    {File(Article(<<Front(<<El("article-meta", NoA, "", k)>>),
                    Body(<<El("table-wrap", NoA, "", <<t>>)>>)>>)) :
        k \in {<<NestedPermissions>>, <<Leaf("title-group"), NestedPermissions>>}, t \in Tables}

\* tex-math placeholders.
TexMathText == {"^{5}", "^{5,6}", ".^{1-3}", "E = mc^2", "\\documentclass{article} x^{2}"}

TexMath == {[El("tex-math", "id" :> "texmath1", t, <<>>) EXCEPT !.tail = " with citation."] : t \in TexMathText}

CiteBacks ==
    {<<>>,
     <<El("back", NoA, "", <<El("ref-list", NoA, "",
          <<El("ref", "id" :> "ref5", "", <<El("mixed-citation", NoA, "Smith 2020", <<>>)>>)>>)>>)>>}

CiteFronts == {<<>>, <<Front(<<El("article-meta", NoA, "", <<NestedPermissions>>)>>)>>}

CiteDocs ==
    {File(Article(front \o <<Body(<<El("p", NoA, "This is a test", k)>>)>> \o back)) :
        front \in CiteFronts, k \in SeqsUpTo(TexMath, MaxTexMath) \ {<<>>}, back \in CiteBacks}

Inputs ==
    TableDocs \cup WrapDocs \cup XrefDocs \cup MetaDocs \cup ArticleTypeDocs \cup JournalDocs
    \cup RootDocs \cup AttrDocs \cup FrontAndTableDocs \cup CiteDocs

(***************************************************************************)
(* The pipeline.                                                           *)
(***************************************************************************)
Init ==
    /\ xml \in Inputs
    /\ dtd = <<>>
    /\ pc = "converted"
    /\ run = 1
    /\ input = xml
    /\ first = <<>>
    /\ completed = FALSE
    /\ report = <<>>
    /\ validation = <<>>
    /\ output_dir = <<>>
    /\ thread = <<>>
    /\ package = <<>>
    /\ gcs = <<>>
    /\ progress = <<>>
    /\ web = <<>>

\* A post-processing step whose exceptions reach run_pipeline.
post_process_xml_Propagates ==
    /\ pc = "converted"
    /\ \E year \in Years : xml' = PostProcess(xml, year)
    /\ completed' = ~Raises(xml)
    /\ pc' = IF Raises(xml) THEN "aborted" ELSE "processed"
    /\ UNCHANGED <<dtd, run, input, first, pipeline_vars, conversion_vars, app_vars>>

post_process_xml ==
    /\ pc = "converted"
    /\ \E year \in Years : xml' = PostProcess(xml, year)
    /\ completed' = ~Raises(xml)
    /\ pc' = "processed"
    /\ UNCHANGED <<dtd, run, input, first, pipeline_vars, conversion_vars, app_vars>>

generate_articledtd_xml ==
    /\ pc = "processed"
    /\ dtd' = add_doctype_declaration(xml, dtd, JatsVersion)
    /\ pc' = "generated"
    /\ first' = IF run = 1 THEN <<[xml |-> xml, dtd |-> dtd', completed |-> completed]>> ELSE first
    /\ UNCHANGED <<xml, run, input, completed, pipeline_vars, conversion_vars, app_vars>>

Resubmit ==
    /\ pc = "generated"
    /\ run = 1
    /\ \E f \in {xml} \cup Range(dtd) : WellFormed(f) /\ xml' = f
    /\ run' = 2
    /\ pc' = "converted"
    /\ completed' = FALSE
    /\ UNCHANGED <<dtd, input, first, pipeline_vars, conversion_vars, app_vars>>

Next == post_process_xml \/ generate_articledtd_xml \/ Resubmit

Spec == Init /\ [][Next]_vars

(***************************************************************************)
(* run_pipeline, steps 1 to 4, for one document: pandoc has written        *)
(* article.xml into a fresh output directory.                              *)
(***************************************************************************)
\* The section headings the rule-based repair completes.
header_fixes ==
    [w \in {"NTRODUCTION", "ETHODS", "ESULTS", "ISCUSSION", "ONCLUSION", "BSTRACT",
             "CKNOWLEDGMENTS", "EFERENCES", "ATERIALS"} |->
        CASE w = "NTRODUCTION" -> "INTRODUCTION"
          [] w = "ETHODS" -> "METHODS"
          [] w = "ESULTS" -> "RESULTS"
          [] w = "ISCUSSION" -> "DISCUSSION"
          [] w = "ONCLUSION" -> "CONCLUSION"
          [] w = "BSTRACT" -> "ABSTRACT"
          [] w = "CKNOWLEDGMENTS" -> "ACKNOWLEDGMENTS"
          [] w = "EFERENCES" -> "REFERENCES"
          [] w = "ATERIALS" -> "MATERIALS"]

\* content.replace(f'>{wrong}<', f'>{right}<'): a text or a tail that is
\* exactly a truncated heading.
FixWholeText(t) == IF t \in DOMAIN header_fixes THEN header_fixes[t] ELSE t

\* content.replace(f'<title>{wrong}', f'<title>{right}'): the text of a title
\* without attributes that starts with a truncated heading.  Of the texts
\* that start with one, the explored documents use these.
FixTitleStart(t) ==
    CASE t \in DOMAIN header_fixes -> header_fixes[t]
      [] t = "ETHODS and materials" -> "METHODS and materials"
      [] OTHER -> t

FixHeaderAt(root, p) ==
    LET e == At(root, p)
        text == IF e.tag = "title" /\ e.a = NoA THEN FixTitleStart(e.text) ELSE FixWholeText(e.text)
    IN  Put(root, p, [e EXCEPT !.text = text, !.tail = FixWholeText(@)])

\* etree.tostring(root) serialises the root element only: the DOCTYPE of the
\* file is not written back.
fix_with_rules(doc) ==
    [doc EXCEPT !.doctype = <<>>, !.root = Fold(FixHeaderAt, @, Iter(@))]

\* _fix_with_ai returns the document it was given (no model, no answer, an
\* answer that does not parse) or the well-formed answer of the model.
fix_content_with_ai(doc, ai_fixed) ==
    IF ai_fixed # doc THEN ai_fixed ELSE fix_with_rules(doc)

\* len(raw_xml) > 100: the two namespace declarations and the two root
\* attributes _post_process_xml writes already exceed 100 characters.
LongEnough(doc) ==
    \/ {"xlink", "mml"} \subseteq DOMAIN doc.nsmap
    \/ Len(doc.doctype) > 0
    \/ Len(Iter(doc.root)) > 3

generate_validation_report_AlwaysPass(passed, error_msg) ==
    [status |-> "PASS",
     error  |-> IF error_msg # "" THEN <<error_msg>> ELSE <<>>]

generate_validation_report(passed, error_msg) ==
    [status |-> IF passed THEN "PASS" ELSE "FAIL",
     error  |-> IF error_msg # "" THEN <<error_msg>> ELSE <<>>]

\* The exits of validate_jats_compliance and the message each one reports.
ValidationError ==
    [o \in {"xsd_missing", "schema_error", "syntax_error", "invalid", "valid"} |->
        CASE o = "xsd_missing" -> "XSD file not found"
          [] o = "schema_error" -> "XMLSchemaParseError"
          [] o = "syntax_error" -> "XML Syntax Error: XMLSyntaxError"
          [] o = "invalid" -> "DocumentInvalid"
          [] o = "valid" -> ""]

Section(title) ==
    El("sec", NoA, "", <<El("title", NoA, title, <<>>), El("p", NoA, "NTRODUCTION", <<>>)>>)

HeadingDocs ==
    {File(Article(<<Body(<<Section(t)>>)>>)) :
        t \in {"Introduction", "NTRODUCTION", "ETHODS and materials", "INTRODUCTION"}}

NotXml == {[d EXCEPT !.doctype = <<DOCTYPE_DECLARATIONS["1.2"], DOCTYPE_DECLARATIONS["1.2"]>>] : d \in HeadingDocs}

\* pandoc --standalone may write a DOCTYPE declaration of its own.
WithDoctype(docs) == {[d EXCEPT !.doctype = <<DOCTYPE_DECLARATIONS["1.2"]>>] : d \in docs}

PandocOutputs ==
    HeadingDocs \cup WithDoctype(HeadingDocs) \cup NotXml \cup RootDocs
    \cup FrontAndTableDocs \cup WithDoctype(FrontAndTableDocs) \cup CiteDocs

AiAnswers ==
    {[doctype |-> d, nsmap |-> <<>>, root |-> Article(<<Body(<<El("p", NoA, "Rewritten", <<>>)>>)>>)] :
        d \in {<<>>, <<DOCTYPE_DECLARATIONS["1.3"]>>}}

PipelineInit ==
    /\ xml \in PandocOutputs
    /\ dtd = <<>>
    /\ pc = "pandoc"
    /\ run = 1
    /\ input = xml
    /\ first = <<>>
    /\ completed = FALSE
    /\ report = <<>>
    /\ validation = <<>>
    /\ output_dir = <<>>
    /\ thread = <<>>
    /\ package = <<>>
    /\ gcs = <<>>
    /\ progress = <<>>
    /\ web = <<>>

validate_xml_wellformedness ==
    /\ pc = "pandoc"
    /\ pc' = IF WellFormed(xml) THEN "converted" ELSE "aborted"
    /\ UNCHANGED <<xml, dtd, run, input, first, completed, pipeline_vars, conversion_vars, app_vars>>

ai_repair ==
    /\ pc = "generated"
    /\ \/ LongEnough(xml) /\ \E ai_fixed \in {xml} \cup AiAnswers : xml' = fix_content_with_ai(xml, ai_fixed)
       \/ ~LongEnough(xml) /\ xml' = xml
    /\ pc' = "repaired"
    /\ UNCHANGED <<dtd, run, input, first, completed, pipeline_vars, conversion_vars, app_vars>>

validate_jats_compliance ==
    /\ pc = "repaired"
    /\ \E o \in DOMAIN ValidationError :
          /\ o = "valid" => WellFormed(xml)
          /\ report' = Append(report, generate_validation_report(o = "valid", ValidationError[o]))
          /\ validation' = <<[outcome |-> o, returned |-> (o = "valid")]>>
    /\ pc' = "validated"
    /\ UNCHANGED <<xml, dtd, run, input, first, completed, conversion_vars, app_vars>>

\* Step 4 starts whatever validate_jats_compliance returned; pandoc may fail.
generate_html ==
    /\ pc = "validated"
    /\ \E ok \in BOOLEAN : pc' = IF ok THEN "html" ELSE "failed"
    /\ UNCHANGED <<xml, dtd, run, input, first, completed, pipeline_vars, conversion_vars, app_vars>>

PipelineNext ==
    \/ validate_xml_wellformedness
    \/ post_process_xml
    \/ generate_articledtd_xml
    \/ ai_repair
    \/ validate_jats_compliance
    \/ generate_html

PipelineSpec == PipelineInit /\ [][PipelineNext]_vars

(***************************************************************************)
(* Two conversions of the web application, each on its own background      *)
(* thread with its own HighFidelityConverter.  Every converter works in    *)
(* the same directory, self.output_dir = "/tmp/output_files"; a file there *)
(* is recorded with the conversion whose document it was made from.        *)
(***************************************************************************)
Conversions == {1, 2}

EmptyDir == [article |-> <<>>, articledtd |-> <<>>, report |-> <<>>]

DocxFiles == {File(Article(<<Body(<<Section(t)>>)>>)) : t \in {"Introduction", "NTRODUCTION"}}

SetPc(i, to) == [thread EXCEPT ![i].pc = to]

ConcurrentInit ==
    /\ xml = <<>>
    /\ dtd = <<>>
    /\ pc = "idle"
    /\ run = 1
    /\ input = <<>>
    /\ first = <<>>
    /\ completed = FALSE
    /\ report = <<>>
    /\ validation = <<>>
    /\ output_dir = EmptyDir
    /\ thread \in [Conversions -> {[pc |-> "queued", docx |-> d] : d \in DocxFiles}]
    /\ package = [i \in Conversions |-> <<>>]
    /\ gcs = <<>>
    /\ progress = <<>>
    /\ web = <<>>

\* HighFidelityConverter(docx_path): _prepare_environment removes the output
\* directory with everything in it and creates it again.
prepare_environment(i) ==
    /\ thread[i].pc = "queued"
    /\ output_dir' = EmptyDir
    /\ thread' = SetPc(i, "constructed")
    /\ UNCHANGED <<xml, dtd, pc, run, input, first, completed, pipeline_vars, app_vars, package>>

run_pandoc_command(i) ==
    /\ thread[i].pc = "constructed"
    /\ output_dir' = [output_dir EXCEPT !.article = <<[source |-> i, doc |-> thread[i].docx]>>]
    /\ thread' = SetPc(i, "pandoc")
    /\ UNCHANGED <<xml, dtd, pc, run, input, first, completed, pipeline_vars, app_vars, package>>

thread_validate_wellformedness(i) ==
    /\ thread[i].pc = "pandoc"
    /\ thread' = SetPc(i, IF \E f \in Range(output_dir.article) : WellFormed(f.doc)
                          THEN "converted" ELSE "failed")
    /\ UNCHANGED <<xml, dtd, pc, run, input, first, completed, pipeline_vars, app_vars, output_dir, package>>

thread_post_process_xml(i) ==
    /\ thread[i].pc = "converted"
    /\ \/ /\ output_dir.article = <<>>
          /\ UNCHANGED output_dir
       \/ /\ output_dir.article # <<>>
          /\ \E year \in Years :
                output_dir' = [output_dir EXCEPT !.article[1].doc = PostProcess(@, year)]
    /\ thread' = SetPc(i, "processed")
    /\ UNCHANGED <<xml, dtd, pc, run, input, first, completed, pipeline_vars, app_vars, package>>

\* _generate_articledtd_xml, then the check of run_pipeline that article.xml
\* exists.
thread_generate_articledtd_xml(i) ==
    /\ thread[i].pc = "processed"
    /\ \/ /\ output_dir.article = <<>>
          /\ UNCHANGED output_dir
          /\ thread' = SetPc(i, "failed")
       \/ /\ output_dir.article # <<>>
          /\ LET f == output_dir.article[1]
                 out == add_doctype_declaration(f.doc, <<>>, JatsVersion)
             IN  output_dir' = [output_dir EXCEPT !.articledtd =
                                    IF out = <<>> THEN @ ELSE <<[source |-> f.source, doc |-> out[1]]>>]
          /\ thread' = SetPc(i, "generated")
    /\ UNCHANGED <<xml, dtd, pc, run, input, first, completed, pipeline_vars, app_vars, package>>

thread_ai_repair(i) ==
    /\ thread[i].pc = "generated"
    /\ \/ /\ output_dir.article = <<>>
          /\ UNCHANGED output_dir
       \/ /\ output_dir.article # <<>>
          /\ LET doc == output_dir.article[1].doc
             IN  \/ /\ LongEnough(doc)
                    /\ \E ai_fixed \in {doc} \cup AiAnswers :
                          output_dir' = [output_dir EXCEPT !.article[1].doc = fix_content_with_ai(doc, ai_fixed)]
                 \/ ~LongEnough(doc) /\ UNCHANGED output_dir
    /\ thread' = SetPc(i, "repaired")
    /\ UNCHANGED <<xml, dtd, pc, run, input, first, completed, pipeline_vars, app_vars, package>>

\* The report is about the article.xml that is in the directory (source 0:
\* none was there).
thread_validate_jats_compliance(i) ==
    /\ thread[i].pc = "repaired"
    /\ \E o \in DOMAIN ValidationError :
          /\ o = "valid" => \E f \in Range(output_dir.article) : WellFormed(f.doc)
          /\ output_dir' = [output_dir EXCEPT !.report =
                <<[source |-> IF output_dir.article = <<>> THEN 0 ELSE output_dir.article[1].source,
                   doc    |-> generate_validation_report(o = "valid", ValidationError[o])]>>]
    /\ thread' = SetPc(i, "validated")
    /\ UNCHANGED <<xml, dtd, pc, run, input, first, completed, pipeline_vars, app_vars, package>>

\* shutil.make_archive(zip_full_path, 'zip', output_folder)
make_archive(i) ==
    /\ thread[i].pc = "validated"
    /\ package' = [package EXCEPT ![i] = <<output_dir>>]
    /\ thread' = SetPc(i, "completed")
    /\ UNCHANGED <<xml, dtd, pc, run, input, first, completed, pipeline_vars, app_vars, output_dir>>

ConcurrentNext ==
    \E i \in Conversions :
        \/ prepare_environment(i)
        \/ run_pandoc_command(i)
        \/ thread_validate_wellformedness(i)
        \/ thread_post_process_xml(i)
        \/ thread_generate_articledtd_xml(i)
        \/ thread_ai_repair(i)
        \/ thread_validate_jats_compliance(i)
        \/ make_archive(i)

ConcurrentSpec == ConcurrentInit /\ [][ConcurrentNext]_vars

(***************************************************************************)
(* The web application (app.py): /convert starts one background thread per *)
(* accepted upload, /status and /download read the conversion_progress     *)
(* dictionary the threads write, and every thread reports to the           *)
(* GCSHandler created when the module is loaded.                           *)
(***************************************************************************)
\* GCSHandler.__init__: bucket_env is the value of GCS_BUCKET_NAME (None when
\* unset), client_ok says whether google.cloud.storage imports and
\* storage.Client() succeeds.
GCSHandler(bucket_env, client_ok) ==
    LET bucket_name == IF bucket_env = None THEN "omnijaxstorage" ELSE bucket_env
    IN  [env         |-> bucket_env,
         bucket_name |-> bucket_name,
         client      |-> IF client_ok THEN "Client" ELSE None,
         bucket      |-> IF client_ok THEN bucket_name ELSE None,
         enabled     |-> client_ok,
         uploaded    |-> <<>>,
         saved       |-> <<>>]

upload_file(handler, local_exists, upload_ok) ==
    IF ~handler.enabled THEN FALSE
    ELSE IF ~local_exists THEN FALSE
    ELSE upload_ok

save_metrics(handler, upload_ok) ==
    IF ~handler.enabled THEN FALSE ELSE upload_ok

ConversionIds == {1, 2}

QueuedEntry == [status |-> "queued", download_path |-> FALSE, download_filename |-> FALSE, old |-> FALSE]

Known(id) == id \in DOMAIN progress

SetEntry(id, field, value) == [progress EXCEPT ![id] = [@ EXCEPT ![field] = value]]

Goto(id, to) == [web EXCEPT !.thread[id].pc = to]

AppInit ==
    /\ xml = <<>>
    /\ dtd = <<>>
    /\ pc = "idle"
    /\ run = 1
    /\ input = <<>>
    /\ first = <<>>
    /\ completed = FALSE
    /\ report = <<>>
    /\ validation = <<>>
    /\ output_dir = <<>>
    /\ thread = <<>>
    /\ package = <<>>
    /\ \E bucket_env \in {None, "test-bucket"}, client_ok \in BOOLEAN :
          gcs = GCSHandler(bucket_env, client_ok)
    /\ progress = <<>>
    /\ web = [thread   |-> [id \in ConversionIds |-> [pc |-> "none", final |-> "none", crashed |-> FALSE]],
              docx     |-> [id \in ConversionIds |-> FALSE],
              zip      |-> [id \in ConversionIds |-> "none"],
              response |-> [id \in ConversionIds |-> <<>>]]

\* /convert: the upload is rejected (400, 500), or it is saved, sent to GCS,
\* entered as queued and given a background thread (202).
convert(id) ==
    /\ web.thread[id].pc = "none"
    /\ \/ /\ web' = Goto(id, "rejected")
          /\ UNCHANGED <<gcs, progress>>
       \/ /\ \E upload_ok \in BOOLEAN :
                gcs' = [gcs EXCEPT !.uploaded = <<upload_file(gcs, TRUE, upload_ok)>>]
          /\ progress' = (id :> QueuedEntry) @@ progress
          /\ web' = [Goto(id, "queued") EXCEPT !.docx[id] = TRUE]
    /\ UNCHANGED <<xml, dtd, pc, run, input, first, completed, pipeline_vars, conversion_vars>>

\* run_conversion_background up to the call of run_pipeline.
start_processing(id) ==
    /\ web.thread[id].pc = "queued"
    /\ IF Known(id)
       THEN progress' = SetEntry(id, "status", "processing") /\ web' = Goto(id, "pipeline")
       ELSE UNCHANGED progress /\ web' = Goto(id, "except")
    /\ UNCHANGED <<xml, dtd, pc, run, input, first, completed, pipeline_vars, conversion_vars, gcs>>

\* converter.run_pipeline() returns or raises; the progress updates after it.
run_pipeline(id) ==
    /\ web.thread[id].pc = "pipeline"
    /\ \E returns \in BOOLEAN :
          web' = Goto(id, IF returns /\ Known(id) THEN "export" ELSE "except")
    /\ UNCHANGED <<xml, dtd, pc, run, input, first, completed, pipeline_vars, conversion_vars, gcs, progress>>

\* shutil.make_archive and the upload of the package.
export_package(id) ==
    /\ web.thread[id].pc = "export"
    /\ \/ /\ web' = Goto(id, "except")
          /\ UNCHANGED gcs
       \/ /\ web' = [Goto(id, "complete") EXCEPT !.zip[id] = "fresh"]
          /\ \E upload_ok \in BOOLEAN :
                gcs' = [gcs EXCEPT !.uploaded = <<upload_file(gcs, TRUE, upload_ok)>>]
    /\ UNCHANGED <<xml, dtd, pc, run, input, first, completed, pipeline_vars, conversion_vars, progress>>

\* conversion_progress[conversion_id]["status"] = "completed"
set_completed(id) ==
    /\ web.thread[id].pc = "complete"
    /\ IF Known(id)
       THEN /\ progress' = SetEntry(id, "status", "completed")
            /\ web' = [Goto(id, "download_path") EXCEPT !.thread[id].final = "completed"]
       ELSE UNCHANGED progress /\ web' = Goto(id, "except")
    /\ UNCHANGED <<xml, dtd, pc, run, input, first, completed, pipeline_vars, conversion_vars, gcs>>

\* conversion_progress[conversion_id]["download_path"] = zip_file_path
set_download_path(id) ==
    /\ web.thread[id].pc = "download_path"
    /\ IF Known(id)
       THEN progress' = SetEntry(id, "download_path", TRUE) /\ web' = Goto(id, "download_filename")
       ELSE UNCHANGED progress /\ web' = Goto(id, "except")
    /\ UNCHANGED <<xml, dtd, pc, run, input, first, completed, pipeline_vars, conversion_vars, gcs>>

\* conversion_progress[conversion_id]["download_filename"] = ..., then the
\* metrics of the completed conversion.
set_download_filename(id) ==
    /\ web.thread[id].pc = "download_filename"
    /\ IF Known(id)
       THEN /\ progress' = SetEntry(id, "download_filename", TRUE)
            /\ web' = Goto(id, "finally")
            /\ \E upload_ok \in BOOLEAN :
                  gcs' = [gcs EXCEPT !.saved = <<save_metrics(gcs, upload_ok)>>]
       ELSE UNCHANGED <<progress, gcs>> /\ web' = Goto(id, "except")
    /\ UNCHANGED <<xml, dtd, pc, run, input, first, completed, pipeline_vars, conversion_vars>>

\* The except clause: it writes the failed status into the entry; without
\* an entry the write raises KeyError, which leaves the thread function
\* after the finally clause.
on_exception(id) ==
    /\ web.thread[id].pc = "except"
    /\ IF Known(id)
       THEN /\ progress' = SetEntry(id, "status", "failed")
            /\ web' = [Goto(id, "finally") EXCEPT !.thread[id].final = "failed"]
            /\ \E upload_ok \in BOOLEAN :
                  gcs' = [gcs EXCEPT !.saved = <<save_metrics(gcs, upload_ok)>>]
       ELSE /\ UNCHANGED <<progress, gcs>>
            /\ web' = [Goto(id, "finally") EXCEPT !.thread[id].crashed = TRUE]
    /\ UNCHANGED <<xml, dtd, pc, run, input, first, completed, pipeline_vars, conversion_vars>>

\* The finally clause: the uploaded DOCX is removed, and so is every
\* package older than one hour.
cleanup(id) ==
    /\ web.thread[id].pc = "finally"
    /\ web' = [Goto(id, IF web.thread[id].crashed THEN "crashed" ELSE "done") EXCEPT
                  !.docx[id] = FALSE,
                  !.zip = [i \in ConversionIds |-> IF web.zip[i] = "old" THEN "deleted" ELSE web.zip[i]]]
    /\ UNCHANGED <<xml, dtd, pc, run, input, first, completed, pipeline_vars, conversion_vars, gcs, progress>>

\* /status: cleanup_old_progress_entries deletes every entry older than 24
\* hours, whatever its status, before the entry is looked up.
get_status(id) ==
    /\ \E i \in DOMAIN progress : progress[i].old
    /\ progress' = [i \in {j \in DOMAIN progress : ~progress[j].old} |-> progress[i]]
    /\ UNCHANGED <<xml, dtd, pc, run, input, first, completed, pipeline_vars, conversion_vars, gcs, web>>

\* /download: the response and the status the request has seen.
DownloadResponse(id) ==
    IF ~Known(id) THEN [code |-> 404, error |-> "Conversion ID not found", status |-> "none"]
    ELSE IF progress[id].status # "completed"
    THEN [code |-> 400, error |-> "Conversion not completed yet", status |-> progress[id].status]
    ELSE IF ~progress[id].download_path \/ web.zip[id] \notin {"fresh", "old"}
    THEN [code |-> 404, error |-> "Download file not found", status |-> "completed"]
    ELSE IF ~progress[id].download_filename
    THEN [code |-> 500, error |-> "KeyError", status |-> "completed"]
    ELSE [code |-> 200, error |-> "", status |-> "completed"]

download_result(id) ==
    /\ web.thread[id].pc # "none"
    /\ web' = [web EXCEPT !.response[id] = <<DownloadResponse(id)>>]
    /\ web' # web
    /\ UNCHANGED <<xml, dtd, pc, run, input, first, completed, pipeline_vars, conversion_vars, gcs, progress>>

\* Time passes: an entry becomes older than 24 hours, a package older than
\* one hour.
grow_old(id) ==
    /\ \/ /\ Known(id) /\ ~progress[id].old
          /\ progress' = SetEntry(id, "old", TRUE)
          /\ UNCHANGED web
       \/ /\ web.zip[id] = "fresh"
          /\ web' = [web EXCEPT !.zip[id] = "old"]
          /\ UNCHANGED progress
    /\ UNCHANGED <<xml, dtd, pc, run, input, first, completed, pipeline_vars, conversion_vars, gcs>>

AppNext ==
    \E id \in ConversionIds :
        \/ convert(id)
        \/ start_processing(id)
        \/ run_pipeline(id)
        \/ export_package(id)
        \/ set_completed(id)
        \/ set_download_path(id)
        \/ set_download_filename(id)
        \/ on_exception(id)
        \/ cleanup(id)
        \/ get_status(id)
        \/ download_result(id)
        \/ grow_old(id)

AppSpec == AppInit /\ [][AppNext]_vars

(***************************************************************************)
(* Properties.                                                             *)
(***************************************************************************)
TablesOf(root) == {At(root, p) : p \in Range(FindAll(root, "table"))}

HasKid(e, tag) == KidIdx(e, tag) # <<>>

HasHeaderOrFooter(t) == HasKid(t, "thead") \/ HasKid(t, "tfoot")

HasBodyWithRow(t) == \E i \in 1..Len(t.kids) : t.kids[i].tag = "tbody" /\ HasKid(t.kids[i], "tr")

\* The state right after _post_process_xml has rewritten article.xml in the
\* first run: input is the document it read and xml the document it wrote.
Repaired == pc = "processed" /\ run = 1 /\ completed

TablePaths(root) == Range(FindAll(root, "table"))

ElementsOf(root) == {At(root, p) : p \in Range(Iter(root))}

\* C1: repairing the output of the repair again (_post_process_xml, then
\* DTD-variant generation, on article.xml or on articledtd.xml of the first
\* run) gives the same article.xml and the same articledtd.xml.
C1_Idempotence ==
    (run = 2 /\ pc = "generated") => (xml = first[1].xml /\ dtd = first[1].dtd)

\* The same for the documents on which the first _post_process_xml ran to
\* its end: the second one runs to its end too and changes nothing.
IdempotenceOfCompletedRepair ==
    (run = 2 /\ first[1].completed) =>
        /\ pc = "processed" => completed /\ xml = first[1].xml
        /\ pc = "generated" => xml = first[1].xml /\ dtd = first[1].dtd

\* C2: after _post_process_xml every table with a thead or tfoot child has a
\* tbody child that contains a tr.
C2_TableLegality ==
    (pc = "processed" /\ run = 1) =>
        \A t \in TablesOf(xml.root) : HasHeaderOrFooter(t) => HasBodyWithRow(t)

\* The same for the documents on which _post_process_xml ran to its end.
TableLegalityOfCompletedRepair ==
    Repaired => \A t \in TablesOf(xml.root) : HasHeaderOrFooter(t) => HasBodyWithRow(t)

\* C3: a table with a thead and/or tfoot and no tbody holding a row keeps its
\* thead and tfoot unchanged, loses every empty tbody and gets exactly one
\* tbody with one tr with one empty td, placed after every thead and tfoot.
KidsTagged(t, tags) == SelectSeq(t.kids, LAMBDA k : k.tag \in tags)

C3_PlaceholderBody ==
    Repaired =>
        \A p \in TablePaths(input.root) :
            LET old == At(input.root, p)
                new == At(xml.root, p)
            IN  (HasHeaderOrFooter(old) /\ ~HasBodyWithRow(old)) =>
                    /\ KidsTagged(new, {"thead", "tfoot"}) = KidsTagged(old, {"thead", "tfoot"})
                    /\ KidsTagged(new, {"tbody"}) = <<El("tbody", NoA, "", <<EmptyRow>>)>>
                    /\ \A i, j \in 1..Len(new.kids) :
                          (new.kids[i].tag = "tbody" /\ new.kids[j].tag \in {"thead", "tfoot"}) => j < i

\* C4: after the table fix no table has both a direct tr child and a tbody
\* child (stated for the tables that did not have both before the fix).
Mixed(t) == HasKid(t, "tr") /\ HasKid(t, "tbody")

C4_NoMixedRows ==
    Repaired =>
        \A p \in TablePaths(input.root) :
            ~Mixed(At(input.root, p)) => ~Mixed(At(xml.root, p))

\* C5: after _post_process_xml every table has a direct tr or a tbody with a
\* row, whatever number of empty tbody elements it had (stated for the tables
\* that came with a tbody, a tr, a thead or a tfoot).
C5_RowContainer ==
    Repaired =>
        \A p \in TablePaths(input.root) :
            (\E k \in Range(At(input.root, p).kids) : k.tag \in {"tbody", "tr", "thead", "tfoot"}) =>
                (HasKid(At(xml.root, p), "tr") \/ HasBodyWithRow(At(xml.root, p)))

\* C6: after _post_process_xml no element carries an attribute whose name
\* starts with data- and no tr carries a class attribute.
StartsWithData(name) == name \in {"data-dtd-compliance", "data-row-id"}

C6_AttributeCleanliness ==
    Repaired =>
        \A e \in ElementsOf(xml.root) :
            /\ \A n \in DOMAIN e.a : ~StartsWithData(n)
            /\ e.tag = "tr" => ~Has(e.a, "class")

\* C7: after _post_process_xml every rid is the id of an element of the
\* document and every token of every rids is such an id.
IdsOf(root) == {e.a["id"] : e \in {x \in ElementsOf(root) : Has(x.a, "id")}}

C7_ReferenceClosure ==
    Repaired =>
        \A e \in ElementsOf(xml.root) :
            /\ Has(e.a, "rid") => e.a["rid"] \in IdsOf(xml.root)
            /\ Has(e.a, "rids") => Range(e.a["rids"]) \subseteq IdsOf(xml.root)

\* C8: after _post_process_xml the id named by the rid of an xref of ref-type
\* bibr is owned by an element, and every element that owns it is a ref entry
\* of the back ref-list (stated for a rid that is not the empty string).
RefsOf(root) == {At(root, RefPaths(root)[i]) : i \in 1..Len(RefPaths(root))}

C8_BibrTargetsAreRefs ==
    Repaired =>
        \A x \in ElementsOf(xml.root) :
            (x.tag = "xref" /\ Get(x.a, "ref-type") = "bibr" /\ Truthy(Get(x.a, "rid"))) =>
                /\ \E e \in ElementsOf(xml.root) : Get(e.a, "id") = x.a["rid"]
                /\ \A e \in ElementsOf(xml.root) : Get(e.a, "id") = x.a["rid"] => e \in RefsOf(xml.root)

\* C9: a tex-math element holding a citation marker (optional leading
\* punctuation, then ^{...} with a number, a comma list or a hyphen range) is
\* replaced by a sup holding one xref of ref-type bibr per number, in order,
\* with rid ref<n>; the leading punctuation and the tail text are kept.
CitationNumbers(t) ==
    IF t = "^{5}" THEN <<5>>
    ELSE IF t = "^{5,6}" THEN <<5, 6>>
    ELSE IF t = ".^{1-3}" THEN <<1, 2, 3>>
    ELSE <<>>

LeadingPunctuation(t) == IF t = ".^{1-3}" THEN "." ELSE ""

IsCitation(e) == e.tag = "tex-math" /\ CitationNumbers(e.text) # <<>>

TextBefore(para, i) == IF i = 1 THEN para.text ELSE para.kids[i - 1].tail

ExpandedAs(new, old) ==
    /\ new.tag = "sup"
    /\ new.tail = old.tail
    /\ Len(new.kids) = Len(CitationNumbers(old.text))
    /\ \A j \in 1..Len(new.kids) :
          /\ new.kids[j].tag = "xref"
          /\ Get(new.kids[j].a, "ref-type") = "bibr"
          /\ Get(new.kids[j].a, "rid") = RefId(CitationNumbers(old.text)[j])

C9_CitationExpansion ==
    Repaired =>
        \A p \in Range(FindAll(input.root, "p")) :
            LET old == At(input.root, p)
                new == At(xml.root, p)
            IN  /\ Len(new.kids) = Len(old.kids)
                /\ \A i \in 1..Len(old.kids) :
                      IsCitation(old.kids[i]) =>
                          /\ ExpandedAs(new.kids[i], old.kids[i])
                          /\ TextBefore(new, i) =
                                TextBefore(old, i) \o LeadingPunctuation(old.kids[i].text)

\* C10: every target id ref<n> of a converted citation is the id of exactly
\* one ref entry of back/ref-list, and a ref entry that already had that id is
\* kept as it was.
CitedNumbers(root) ==
    UNION {Range(CitationNumbers(e.text)) : e \in {x \in ElementsOf(root) : IsCitation(x)}}

RefsWithId(root, id) == {i \in 1..Len(RefPaths(root)) : Get(At(root, RefPaths(root)[i]).a, "id") = id}

C10_CitedRefsExist ==
    Repaired =>
        \A n \in CitedNumbers(input.root) :
            /\ Cardinality(RefsWithId(xml.root, RefId(n))) = 1
            /\ \A i \in RefsWithId(input.root, RefId(n)) :
                  At(input.root, RefPaths(input.root)[i]) \in RefsOf(xml.root)

\* C11: a tex-math element that holds mathematics and no citation marker is
\* in the same place with the same attributes, text and tail after
\* _post_process_xml: it is not replaced by a sup or an xref.
IsFormula(e) == e.tag = "tex-math" /\ CitationNumbers(e.text) = <<>>

BacksOf(root) == {At(root, p) : p \in Range(FindAll(root, "back"))}

C12_EmptyBackRemoved ==
    Repaired =>
        /\ \A b \in BacksOf(xml.root) : b.kids # <<>>
        /\ \A b \in BacksOf(input.root) : b.kids # <<>> =>
              \E c \in BacksOf(xml.root) : Len(c.kids) = Len(b.kids) /\ c.kids[1].tag = b.kids[1].tag

\* C14: article.xml as written by _post_process_xml has no DOCTYPE
\* declaration; articledtd.xml made from it has exactly the DOCTYPE
\* declaration of the configured JATS version in its prolog, the same root
\* content, and no xsi:schemaLocation attribute on its root.
C14_DoctypeVariants ==
    /\ (pc = "processed" /\ completed) => xml.doctype = <<>>
    /\ (pc = "generated" /\ completed) =>
          /\ dtd[1].doctype = <<DOCTYPE_DECLARATIONS[JatsVersion]>>
          /\ dtd[1].root = xml.root
          /\ dtd[1].nsmap = xml.nsmap
          /\ ~Has(dtd[1].root.a, "xsi:schemaLocation")

C14_Witness ==
    /\ pc = "generated" /\ run = 1 /\ completed
    /\ input.doctype # <<>>
    /\ Has(input.root.a, "xsi:schemaLocation")
    /\ xml.doctype = <<>>
    /\ dtd[1].doctype = <<DOCTYPE_DECLARATIONS["1.3"]>>

\* C18: for an existing article-meta, after _post_process_xml a title-group,
\* an article-categories, a pub-date and an fpage or elocation-id are present,
\* each added only when none was there, and the children it had are kept.
ArticleMetaPath(root) == FindIn(root, Find(root, "front"), "article-meta")

Count(e, tags) == Len(SelectSeq(Desc(e), LAMBDA p : At(e, p).tag \in tags))

CompletedKind(old, new, tags) ==
    Count(new, tags) = IF Count(old, tags) = 0 THEN 1 ELSE Count(old, tags)

IsPlaceholder(k) ==
    \/ k \in {TitleGroup, ElocationId}
    \/ k \in {PubDate(y) : y \in Years}
    \/ k \in {ArticleCategories(t) : t \in {"research-article", "review-article", "letter"}}

C18_MetadataCompletion ==
    Repaired =>
        \A p \in Range(ArticleMetaPath(input.root)) :
            LET old == At(input.root, p)
                new == At(xml.root, p)
            IN  /\ CompletedKind(old, new, {"title-group"})
                /\ CompletedKind(old, new, {"article-categories"})
                /\ CompletedKind(old, new, {"pub-date"})
                /\ CompletedKind(old, new, {"fpage", "elocation-id"})
                /\ SelectSeq(new.kids, LAMBDA k : ~IsPlaceholder(k)) = old.kids

\* C19: when the children of article-meta are in the grammar order before
\* the metadata completion, they are in that order after it.
GrammarRank(tag) ==
    CASE tag = "article-categories" -> 1
      [] tag = "title-group" -> 2
      [] tag = "contrib-group" -> 3
      [] tag = "aff" -> 4
      [] tag = "author-notes" -> 5
      [] tag = "pub-date" -> 6
      [] tag = "volume" -> 7
      [] tag = "issue" -> 8
      [] tag \in {"fpage", "lpage", "elocation-id"} -> 9
      [] tag = "permissions" -> 10
      [] tag = "abstract" -> 11
      [] OTHER -> 0

InGrammarOrder(am) ==
    \A i, j \in 1..Len(am.kids) :
        (i < j /\ GrammarRank(am.kids[i].tag) # 0 /\ GrammarRank(am.kids[j].tag) # 0) =>
            GrammarRank(am.kids[i].tag) <= GrammarRank(am.kids[j].tag)

C19_MetadataOrder ==
    Repaired =>
        \A p \in Range(ArticleMetaPath(input.root)) :
            InGrammarOrder(At(input.root, p)) => InGrammarOrder(At(xml.root, p))

\* C13: after step 2 of run_pipeline, article.xml and articledtd.xml have
\* the same root element content (they differ by the DOCTYPE only).
C13_VariantsIdentical ==
    pc = "repaired" => \A d \in Range(dtd) : d.root = xml.root /\ d.nsmap = xml.nsmap

\* C15: once the well-formedness check has passed, each XML stage of
\* run_pipeline is followed by the next one whatever went wrong in it:
\* post-processing by the generation of the DTD variant, which leaves
\* articledtd.xml written, then the content repair, then validation, which
\* leaves one validation report written.  Only a document that does not
\* parse aborts.
NextStage ==
    /\ pc = "converted" => pc' = "processed"
    /\ pc = "processed" => pc' = "generated" /\ Len(dtd') = 1
    /\ pc = "generated" => pc' = "repaired" /\ Len(dtd') = 1
    /\ pc = "repaired" => pc' = "validated" /\ Len(dtd') = 1 /\ Len(report') = 1
    /\ pc' = "aborted" => Len(input'.doctype) > 1

C15_OnlyParseFailureStops == [][NextStage]_vars

C15_Witness ==
    /\ pc = "validated"
    /\ ~completed
    /\ first[1].xml = input
    /\ validation[1].outcome = "invalid"
    /\ Len(dtd) = 1
    /\ Len(report) = 1

\* C16: when the converter output does not parse,
\* _validate_xml_wellformedness raises and run_pipeline stops: no later
\* step runs, article.xml stays as the converter wrote it, and neither
\* articledtd.xml nor a validation report exists.
C16_FatalParseFailure ==
    Len(input.doctype) > 1 =>
        /\ pc \in {"pandoc", "aborted"}
        /\ xml = input
        /\ dtd = <<>>
        /\ report = <<>>
        /\ validation = <<>>
        /\ pc = "aborted" => ~ENABLED PipelineNext

C16_Witness == pc = "aborted" /\ Len(input.doctype) > 1 /\ dtd = <<>> /\ report = <<>>

\* C17: validate_jats_compliance writes exactly one validation report on
\* each of its exits; the status of the report is PASS exactly when the
\* schema validation succeeded, a FAIL report carries the error message,
\* and step 4 of run_pipeline starts after a False result as after True.
C17_ValidationReported ==
    /\ pc \in {"pandoc", "aborted", "converted", "processed", "generated", "repaired"} => report = <<>>
    /\ pc \in {"validated", "html", "failed"} =>
          /\ Len(report) = 1 /\ Len(validation) = 1
          /\ report[1].status \in {"PASS", "FAIL"}
          /\ report[1].status = "PASS" <=> validation[1].outcome = "valid"
          /\ validation[1].returned <=> validation[1].outcome = "valid"
          /\ report[1].status = "FAIL" =>
                report[1].error = <<ValidationError[validation[1].outcome]>> /\ report[1].error[1] # ""
    /\ pc = "validated" => ENABLED generate_html

C17_Witness ==
    /\ pc = "html"
    /\ ~validation[1].returned
    /\ validation[1].outcome = "xsd_missing"
    /\ report = <<[status |-> "FAIL", error |-> <<"XSD file not found">>]>>

\* C20: while a conversion is between its pandoc step and its packaging,
\* the article.xml in its working directory is the one made from its own
\* document (no other conversion has deleted or replaced it), and the
\* package of a completed conversion holds only files made from its own
\* document.
Working == {"pandoc", "converted", "processed", "generated", "repaired", "validated"}

FilesOf(dir) == Range(dir.article) \cup Range(dir.articledtd) \cup Range(dir.report)

C20_Isolation ==
    \A i \in Conversions :
        /\ thread[i].pc \in Working =>
              \E f \in Range(output_dir.article) : f.source = i
        /\ thread[i].pc = "completed" =>
              \A d \in Range(package[i]) :
                  /\ d.article # <<>> /\ d.articledtd # <<>> /\ d.report # <<>>
                  /\ \A f \in FilesOf(d) : f.source = i

\* C23: _post_process_xml leaves a rid that names the id of an element of
\* the document as it is, and it rewrites a rids value to its valid ids in
\* their order, removing the attribute only when none is valid.
C23_ValidReferencesKept ==
    Repaired =>
        \A p \in Range(Iter(input.root)) :
            LET e == At(input.root, p)
                o == At(xml.root, p)
            IN  /\ (Has(e.a, "rid") /\ e.a["rid"] \in IdsOf(input.root)) =>
                      (Has(o.a, "rid") /\ o.a["rid"] = e.a["rid"])
                /\ (Has(e.a, "rids") /\ e.a["rids"] # <<>>) =>
                      LET kept == SelectSeq(e.a["rids"], LAMBDA r : r \in IdsOf(xml.root))
                      IN  IF kept # <<>> THEN Has(o.a, "rids") /\ o.a["rids"] = kept
                          ELSE ~Has(o.a, "rids")

\* C24: an element whose rid names no id of the document gets, when it is
\* an xref whose alt is the position k of a ref entry that has an id, the id
\* of the k-th ref entry as its rid; in every other case it loses its rid.
\* The ids given to ref entries in the same pass count as ids of the
\* document.
C24_SingleReferenceRepair ==
    Repaired =>
        \A p \in Range(Iter(input.root)) :
            LET e == At(input.root, p)
                o == At(xml.root, p)
                k == IF e.tag = "xref" THEN AltIndex(xml.root, e) ELSE 0
            IN  (Has(e.a, "rid") /\ e.a["rid"] \notin IdsOf(xml.root)) =>
                    IF k # 0 /\ Has(At(xml.root, RefPaths(xml.root)[k]).a, "id")
                    THEN Has(o.a, "rid") /\ o.a["rid"] = At(xml.root, RefPaths(xml.root)[k]).a["id"]
                    ELSE ~Has(o.a, "rid")

\* C25: after _post_process_xml the root declares the prefix xlink bound
\* to the XLink namespace and the prefix mml bound to the MathML namespace
\* (a prefix is declared at most once: the namespace map is a function),
\* and the root keeps its children and every attribute other than
\* xsi:schemaLocation.
C25_NamespacesDeclared ==
    Repaired =>
        /\ Has(xml.nsmap, "xlink") /\ xml.nsmap["xlink"] = XlinkUri
        /\ Has(xml.nsmap, "mml") /\ xml.nsmap["mml"] = MmlUri
        /\ Len(xml.root.kids) = Len(input.root.kids)
        /\ \A k \in DOMAIN input.root.a \ {"xsi:schemaLocation", "dtd-version"} :
              Has(xml.root.a, k) /\ xml.root.a[k] = input.root.a[k]

\* C26: after _post_process_xml every table-wrap has a position attribute
\* whose value is float or anchor.
C26_TableWrapPosition ==
    Repaired =>
        \A p \in Range(FindAll(xml.root, "table-wrap")) :
            Get(At(xml.root, p).a, "position") \in {"float", "anchor"}

\* C27: when no two elements of the input share an id, no two elements of
\* the output of _post_process_xml share an id.
UniqueIds(root) ==
    \A p, q \in Range(Iter(root)) :
        (p # q /\ Has(At(root, p).a, "id") /\ Has(At(root, q).a, "id")) =>
            At(root, p).a["id"] # At(root, q).a["id"]

C27_IdUniqueness == Repaired => (UniqueIds(input.root) => UniqueIds(xml.root))

\* C28: when a repair step of _post_process_xml raises, run_pipeline does
\* not stop, article.xml is what it was before the step (nothing partly
\* repaired is written) and the pipeline goes on with it; article.xml is
\* rewritten only when no step raised.
C28_AllOrNothing ==
    /\ pc = "aborted" => Len(input.doctype) > 1
    /\ (pc = "processed" /\ ~completed) => (xml = input /\ Raises(input))
    /\ (pc = "processed" /\ completed) => ~Raises(input)
    /\ (pc = "generated" /\ ~completed) => (xml = input /\ \A d \in Range(dtd) : d.root = input.root)

C28_Witness ==
    /\ pc = "generated"
    /\ ~completed
    /\ xml = input
    /\ Len(dtd) = 1
    /\ FixTables(FixTableWraps(input.root)) # input.root

\* C21: when step 2 has replaced article.xml by the result of
\* fix_content_with_ai, the content that is validated is that result after
\* a completed run of the structural repair, not the result as it came.
C21_SuggestionReentersRepair ==
    (pc = "validated" /\ first # <<>> /\ xml # first[1].xml) =>
        \E d \in AiAnswers \cup {fix_with_rules(first[1].xml)}, year \in Years :
            ~Raises(d) /\ xml = PostProcess(d, year)

\* C22: when GCS_BUCKET_NAME is unset the GCSHandler is disabled: enabled is
\* False, bucket_name, client and bucket are None, and every upload_file and
\* save_metrics call has skipped the operation and returned False.
C22_DisabledWhenUnconfigured ==
    gcs.env = None =>
        /\ ~gcs.enabled
        /\ gcs.bucket_name = None
        /\ gcs.client = None
        /\ gcs.bucket = None
        /\ \A result \in Range(gcs.uploaded) \cup Range(gcs.saved) : result = FALSE

\* C29: under every interleaving of the background thread with /status and
\* /download, a conversion whose status reads completed has its
\* download_path and download_filename set and its ZIP on disk, so /download
\* serves the file exactly when it observes completed, and a request that
\* observes any other status gets the "not completed yet" error.
C29_CompletedIsDownloadable ==
    \A id \in ConversionIds :
        /\ (Known(id) /\ progress[id].status = "completed") =>
               /\ progress[id].download_path
               /\ progress[id].download_filename
               /\ web.zip[id] \in {"fresh", "old"}
        /\ \A r \in Range(web.response[id]) :
               /\ r.code = 200 <=> r.status = "completed"
               /\ r.status \in {"queued", "processing", "failed"} =>
                      (r.code = 400 /\ r.error = "Conversion not completed yet")

\* C30: an accepted conversion starts queued, ends completed or failed once
\* run_pipeline has returned or raised, keeps its terminal status, has its
\* uploaded DOCX removed in both outcomes, and its thread never fails on a
\* missing progress entry while /status cleans up old entries.
C30_ConversionLifecycle ==
    \A id \in ConversionIds :
        /\ (web.thread[id].pc = "queued" /\ Known(id)) => progress[id].status = "queued"
        /\ web.thread[id].pc \in {"done", "crashed"} => ~web.docx[id]
        /\ web.thread[id].pc \in {"done", "crashed"} => web.thread[id].final \in {"completed", "failed"}
        /\ (Known(id) /\ web.thread[id].final # "none") => progress[id].status = web.thread[id].final
        /\ ~web.thread[id].crashed
====
